---- MODULE Spec2Model ----
(***************************************************************************)
(* The list viewport and navigation state machine of oq (model.go, held in *)
(* src/main.go from line 64 on): the Model struct, Update's key and resize *)
(* handlers, filterItems, ensureCursorVisible and their helpers.           *)
(*                                                                         *)
(* Strings that the program searches in are sequences of one-character     *)
(* strings, so that strings.ToLower and strings.Contains are computed.     *)
(* A Go panic (index out of range) ends the program: panicked becomes TRUE *)
(* and no further message is processed; tea.Quit does the same with quit.  *)
(***************************************************************************)
EXTENDS Integers, Sequences, FiniteSets, TLC

VARIABLES
    endpoints,          \* m.endpoints: master sequence of endpoint records
    components,         \* m.components
    webhooks,           \* m.webhooks
    cursor,             \* m.cursor
    mode,               \* m.mode
    width,              \* m.width
    height,             \* m.height
    showHelp,           \* m.showHelp
    lastKey,            \* m.lastKey (m.lastKeyAt is read only through
                        \* now.Sub(m.lastKeyAt), the elapsed input of Keyg)
    scrollOffset,       \* m.scrollOffset
    searchMode,         \* m.searchMode
    searchInput,        \* m.searchInput.Value()
    filteredEndpoints,  \* m.filteredEndpoints (copies of master records)
    filteredComponents, \* m.filteredComponents
    filteredWebhooks,   \* m.filteredWebhooks
    showCurl,           \* m.showCurl
    curlCommand,        \* m.curlCommand
    quit,               \* Update returned tea.Quit
    panicked,           \* Update indexed a slice out of range
    lastMsg             \* history: the message Update processed last

vars == <<endpoints, components, webhooks, cursor, mode, width, height,
          showHelp, lastKey, scrollOffset, searchMode, searchInput,
          filteredEndpoints, filteredComponents, filteredWebhooks,
          showCurl, curlCommand, quit, panicked, lastMsg>>

masters == <<endpoints, components, webhooks>>
filtered == <<filteredEndpoints, filteredComponents, filteredWebhooks>>

----------------------------------------------------------------------------
(* Constants of the program                                                *)

viewEndpoints == 0
viewComponents == 1
viewWebhooks == 2

keySequenceThreshold == 500
scrollHalfScreenLines == 21

headerApproxLines == 2
footerApproxLines == 4
layoutBuffer == 2

(* Bound of the model: the longest query typed (the program's CharLimit is *)
(* 100).                                                                   *)
MaxQuery == 1

Max(a, b) == IF a > b THEN a ELSE b

calculateContentHeight(totalHeight) ==
    Max(1, totalHeight - headerApproxLines - footerApproxLines - layoutBuffer)

----------------------------------------------------------------------------
(* strings.ToLower and strings.Contains on sequences of characters         *)

LowerChar(c) ==
    CASE c = "G" -> "g"
      [] c = "P" -> "p"
      [] c = "Q" -> "q"
      [] OTHER -> c

ToLower(s) == [i \in 1..Len(s) |-> LowerChar(s[i])]

Contains(s, sub) ==
    \E i \in 0..(Len(s) - Len(sub)) : SubSeq(s, i + 1, i + Len(sub)) = sub

----------------------------------------------------------------------------
(* filterItems                                                             *)

MatchEndpoint(ep, query) ==
    \/ Contains(ToLower(ep.path), query)
    \/ Contains(ToLower(ep.method), query)
    \/ (ep.summary # <<>> /\ Contains(ToLower(ep.summary), query))
    \/ (ep.description # <<>> /\ Contains(ToLower(ep.description), query))

MatchComponent(comp, query) ==
    \/ Contains(ToLower(comp.name), query)
    \/ Contains(ToLower(comp.compType), query)
    \/ Contains(ToLower(comp.description), query)

MatchWebhook(hook, query) ==
    \/ Contains(ToLower(hook.name), query)
    \/ Contains(ToLower(hook.method), query)
    \/ (hook.summary # <<>> /\ Contains(ToLower(hook.summary), query))
    \/ (hook.description # <<>> /\ Contains(ToLower(hook.description), query))

(* filterItems as a function of the masters and the input's value: the     *)
(* three filtered slices it leaves behind (nil is the empty sequence).     *)
filterItems(eps, comps, hooks, value) ==
    LET query == ToLower(value)
    IN  IF query = <<>>
        THEN <<<<>>, <<>>, <<>>>>
        ELSE <<SelectSeq(eps, LAMBDA ep : MatchEndpoint(ep, query)),
               SelectSeq(comps, LAMBDA comp : MatchComponent(comp, query)),
               SelectSeq(hooks, LAMBDA hook : MatchWebhook(hook, query))>>

(* "m.filterItems()" run on the given masters and input value.             *)
Refilter(eps, comps, hooks, value) ==
    /\ filteredEndpoints' = filterItems(eps, comps, hooks, value)[1]
    /\ filteredComponents' = filterItems(eps, comps, hooks, value)[2]
    /\ filteredWebhooks' = filterItems(eps, comps, hooks, value)[3]

----------------------------------------------------------------------------
(* Active collections, item heights                                        *)

(* Mutant of getActiveEndpoints: the filtered slice whatever the query.    *)
getActiveEndpointsFiltered == filteredEndpoints

getActiveEndpoints == IF searchInput # <<>> THEN filteredEndpoints ELSE endpoints
getActiveComponents == IF searchInput # <<>> THEN filteredComponents ELSE components
getActiveWebhooks == IF searchInput # <<>> THEN filteredWebhooks ELSE webhooks

(* The slice the current mode shows.                                       *)
ActiveItems ==
    CASE mode = viewEndpoints -> getActiveEndpoints
      [] mode = viewComponents -> getActiveComponents
      [] mode = viewWebhooks -> getActiveWebhooks
      [] OTHER -> <<>>

getMaxItems == Len(ActiveItems) - 1

hasWebhooks == Len(webhooks) > 0

(* getItemHeight(index) for index >= 0; detailNewlines is the newline      *)
(* count of the item's formatted details.                                  *)
getItemHeight(index) ==
    IF index >= Len(ActiveItems) THEN 1
    ELSE IF ActiveItems[index + 1].folded THEN 1
    ELSE 1 + ActiveItems[index + 1].detailNewlines + 1

----------------------------------------------------------------------------
(* ensureCursorVisible                                                     *)

(* Lines used by items from..to (inclusive) of the active slice: the loop  *)
(* "for i := from; i <= to && i < len(items); i++".                        *)
RECURSIVE LinesUsed(_, _)
LinesUsed(from, to) ==
    IF from > to \/ from >= Len(ActiveItems) THEN 0
    ELSE getItemHeight(from) + LinesUsed(from + 1, to)

MoreAbove(offset) == IF offset > 0 THEN 1 ELSE 0

(* Mutant of ScanScrollOffset: the test forgets the more-above line.       *)
RECURSIVE ScanScrollOffsetNoIndicator(_, _, _, _)
ScanScrollOffsetNoIndicator(newScrollOffset, c, so, contentHeight) ==
    IF newScrollOffset > c THEN so
    ELSE IF LinesUsed(newScrollOffset, c) <= contentHeight
         THEN newScrollOffset
         ELSE ScanScrollOffsetNoIndicator(newScrollOffset + 1, c, so, contentHeight)

(* The scan "for newScrollOffset := m.scrollOffset + 1; ... <= m.cursor":  *)
(* the first offset that fits, or the old offset when the loop runs out.   *)
RECURSIVE ScanScrollOffset(_, _, _, _)
ScanScrollOffset(newScrollOffset, c, so, contentHeight) ==
    IF newScrollOffset > c THEN so
    ELSE IF MoreAbove(newScrollOffset) + LinesUsed(newScrollOffset, c) <= contentHeight
         THEN newScrollOffset
         ELSE ScanScrollOffset(newScrollOffset + 1, c, so, contentHeight)

(* Mutant of ensureCursorVisible: a call scrolls down by one item instead  *)
(* of scanning for the offset that fits.                                   *)
ensureCursorVisibleOneStep(c, so) ==
    LET contentHeight == calculateContentHeight(height)
        linesUsed == LinesUsed(so, c) + MoreAbove(so)
        scrolled == IF linesUsed > contentHeight /\ so < c THEN so + 1 ELSE so
    IN  IF c = 0 THEN 0
        ELSE IF Len(ActiveItems) = 0 THEN so
        ELSE IF c < so THEN c
        ELSE IF scrolled < 0 THEN 0 ELSE scrolled

(* Mutant of ensureCursorVisible: the "cursor above the window" branch is  *)
(* missing.                                                                *)
ensureCursorVisibleNoScrollUp(c, so) ==
    LET contentHeight == calculateContentHeight(height)
        linesUsed == LinesUsed(so, c) + MoreAbove(so)
        scrolled == IF linesUsed > contentHeight
                    THEN ScanScrollOffset(so + 1, c, so, contentHeight)
                    ELSE so
    IN  IF c = 0 THEN 0
        ELSE IF Len(ActiveItems) = 0 THEN so
        ELSE IF scrolled < 0 THEN 0 ELSE scrolled

(* The scroll offset ensureCursorVisible leaves behind, called with cursor *)
(* c and scroll offset so, on the current mode, slices and height.         *)
ensureCursorVisible(c, so) ==
    LET contentHeight == calculateContentHeight(height)
        linesUsed == LinesUsed(so, c) + MoreAbove(so)
        scrolled == IF linesUsed > contentHeight
                    THEN ScanScrollOffset(so + 1, c, so, contentHeight)
                    ELSE so
    IN  IF c = 0 THEN 0
        ELSE IF Len(ActiveItems) = 0 THEN so
        ELSE IF c < so THEN c
        ELSE IF scrolled < 0 THEN 0 ELSE scrolled

(* getItemHeight indexes the slice with a negative index when the first    *)
(* loop of ensureCursorVisible starts below 0.                             *)
ensureCursorVisiblePanics(c, so) ==
    c # 0 /\ Len(ActiveItems) > 0 /\ ~(c < so) /\ so < 0

----------------------------------------------------------------------------
(* Update: key messages while m.searchMode                                 *)

Running == ~quit /\ ~panicked

(* The history record of a message: its key (or "resize") and whether it   *)
(* arrived while m.searchMode.  For a press of g handled by the browsing   *)
(* switch, gap is the time since the previous such press and run counts    *)
(* the presses of g that followed one another, each less than the          *)
(* threshold after the one before (MaxRun stands for "MaxRun or more").    *)
MaxRun == 3

Msg(key) == [key |-> key, search |-> searchMode, gap |-> 0, run |-> 0]

(* The history before any key message.                                     *)
NoMsg(key) == [key |-> key, search |-> FALSE, gap |-> 0, run |-> 0]

(* The message processed last was key, in search mode or not.              *)
Handled(key, inSearch) == lastMsg.key = key /\ lastMsg.search = inSearch

(* Keys that insert their character into the text input.                   *)
Printable == {"G", " ", "q", "j", "k", "g", "?", "r"}

(* Keys the text input receives in search mode: those of the navigation    *)
(* state machine, and all that a search may be sent.                       *)
SearchKeys == {"G", " ", "backspace", "ctrl+u", "tab", "down"}
SearchEditKeys ==
    Printable \cup {"backspace", "ctrl+u", "tab", "shift+tab", "down", "up",
                    "ctrl+d"}

(* textinput.Model.Update on the value, the text cursor being at its end:  *)
(* a printable key appends its character, backspace deletes the last one,  *)
(* ctrl+u deletes everything before the cursor, other keys change nothing. *)
textinputUpdate(value, key) ==
    CASE key \in Printable -> Append(value, key)
      [] key = "backspace" ->
            IF value = <<>> THEN value ELSE SubSeq(value, 1, Len(value) - 1)
      [] key = "ctrl+u" -> <<>>
      [] OTHER -> value

(* Mutant of SearchEsc: clearing the search folds every endpoint again.    *)
SearchEscFoldsAll ==
    /\ Running /\ searchMode
    /\ searchMode' = FALSE
    /\ searchInput' = <<>>
    /\ endpoints' = [i \in 1..Len(endpoints) |->
                        [endpoints[i] EXCEPT !.folded = TRUE]]
    /\ Refilter(endpoints', components, webhooks, <<>>)
    /\ cursor' = 0
    /\ scrollOffset' = 0
    /\ lastMsg' = Msg("esc")
    /\ UNCHANGED <<components, webhooks, mode, width, height, showHelp,
                   lastKey, showCurl, curlCommand, quit, panicked>>

(* Mutant of SearchEsc: the cursor and the scroll offset are not reset.    *)
SearchEscKeepsCursor ==
    /\ Running /\ searchMode
    /\ searchMode' = FALSE
    /\ searchInput' = <<>>
    /\ Refilter(endpoints, components, webhooks, <<>>)
    /\ lastMsg' = Msg("esc")
    /\ UNCHANGED <<masters, cursor, scrollOffset, mode, width, height,
                   showHelp, lastKey, showCurl, curlCommand, quit, panicked>>

SearchEsc ==
    /\ Running /\ searchMode
    /\ searchMode' = FALSE
    /\ searchInput' = <<>>
    /\ Refilter(endpoints, components, webhooks, <<>>)
    /\ cursor' = 0
    /\ scrollOffset' = 0
    /\ lastMsg' = Msg("esc")
    /\ UNCHANGED <<masters, mode, width, height, showHelp, lastKey,
                   showCurl, curlCommand, quit, panicked>>

SearchCtrlC ==
    /\ Running /\ searchMode
    /\ quit' = TRUE
    /\ lastMsg' = Msg("ctrl+c")
    /\ UNCHANGED <<masters, filtered, cursor, mode, width, height, showHelp,
                   lastKey, scrollOffset, searchMode, searchInput, showCurl,
                   curlCommand, panicked>>

(* Mutant of SearchEnter: the commit resets the cursor.                    *)
SearchEnterResetsCursor ==
    /\ Running /\ searchMode
    /\ searchMode' = FALSE
    /\ cursor' = 0
    /\ scrollOffset' = 0
    /\ lastMsg' = Msg("enter")
    /\ UNCHANGED <<masters, filtered, mode, width, height, showHelp,
                   lastKey, searchInput, showCurl, curlCommand,
                   quit, panicked>>

SearchEnter ==
    /\ Running /\ searchMode
    /\ searchMode' = FALSE
    /\ lastMsg' = Msg("enter")
    /\ UNCHANGED <<masters, filtered, cursor, mode, width, height, showHelp,
                   lastKey, scrollOffset, searchInput, showCurl, curlCommand,
                   quit, panicked>>

(* Mutant of SearchInput: the filtered slices are not rebuilt.             *)
SearchInputNoRefilter(key) ==
    /\ Running /\ searchMode
    /\ key \in Printable => Len(searchInput) < MaxQuery
    /\ searchInput' = textinputUpdate(searchInput, key)
    /\ cursor' = 0
    /\ scrollOffset' = 0
    /\ lastMsg' = Msg(key)
    /\ UNCHANGED <<masters, filtered, mode, width, height, showHelp, lastKey,
                   searchMode, showCurl, curlCommand, quit, panicked>>

(* Mutant of SearchInput: the cursor is not reset after the keystroke.     *)
SearchInputKeepsCursor(key) ==
    /\ Running /\ searchMode
    /\ key \in Printable => Len(searchInput) < MaxQuery
    /\ searchInput' = textinputUpdate(searchInput, key)
    /\ Refilter(endpoints, components, webhooks, searchInput')
    /\ lastMsg' = Msg(key)
    /\ UNCHANGED <<masters, cursor, scrollOffset, mode, width, height,
                   showHelp, lastKey, searchMode, showCurl, curlCommand,
                   quit, panicked>>

SearchInput(key) ==
    /\ Running /\ searchMode
    /\ key \in Printable => Len(searchInput) < MaxQuery
    /\ searchInput' = textinputUpdate(searchInput, key)
    /\ Refilter(endpoints, components, webhooks, searchInput')
    /\ cursor' = 0
    /\ scrollOffset' = 0
    /\ lastMsg' = Msg(key)
    /\ UNCHANGED <<masters, mode, width, height, showHelp, lastKey,
                   searchMode, showCurl, curlCommand, quit, panicked>>

----------------------------------------------------------------------------
(* Update: tea.WindowSizeMsg                                               *)

WindowWidths == {80}
WindowHeights == {10, 24}

Resize(w, h) ==
    /\ Running
    /\ width' = w
    /\ height' = h
    /\ lastMsg' = Msg("resize")
    /\ UNCHANGED <<masters, filtered, cursor, mode, showHelp, lastKey,
                   scrollOffset, searchMode, searchInput, showCurl,
                   curlCommand, quit, panicked>>

----------------------------------------------------------------------------
(* Update: key messages while browsing (m.searchMode is false)             *)

Browsing == Running /\ ~searchMode

(* "m.cursor = c; m.ensureCursorVisible()"                                 *)
MoveCursor(c) ==
    /\ cursor' = c
    /\ IF ensureCursorVisiblePanics(c, scrollOffset)
       THEN panicked' = TRUE /\ scrollOffset' = scrollOffset
       ELSE panicked' = panicked /\ scrollOffset' = ensureCursorVisible(c, scrollOffset)

KeyQuit(key) ==
    /\ Browsing
    /\ lastMsg' = Msg(key)
    /\ IF showHelp
       THEN showHelp' = FALSE /\ quit' = quit
       ELSE quit' = TRUE /\ showHelp' = showHelp
    /\ UNCHANGED <<masters, filtered, cursor, mode, width, height, lastKey,
                   scrollOffset, searchMode, searchInput, showCurl,
                   curlCommand, panicked>>

KeyHelp ==
    /\ Browsing
    /\ lastMsg' = Msg("?")
    /\ showHelp' = ~showHelp
    /\ UNCHANGED <<masters, filtered, cursor, mode, width, height, lastKey,
                   scrollOffset, searchMode, searchInput, showCurl,
                   curlCommand, quit, panicked>>

KeySlash ==
    /\ Browsing
    /\ lastMsg' = Msg("/")
    /\ IF ~showHelp
       THEN /\ searchMode' = TRUE
            /\ searchInput' = <<>>
            /\ Refilter(endpoints, components, webhooks, <<>>)
       ELSE UNCHANGED <<searchMode, searchInput, filtered>>
    /\ UNCHANGED <<masters, cursor, mode, width, height, showHelp, lastKey,
                   scrollOffset, showCurl, curlCommand, quit, panicked>>

KeyEsc ==
    /\ Browsing
    /\ lastMsg' = Msg("esc")
    /\ IF showHelp
       THEN /\ showHelp' = FALSE
            /\ UNCHANGED <<searchMode, searchInput, filtered, cursor,
                           scrollOffset, showCurl>>
       ELSE IF searchMode
       THEN /\ searchMode' = FALSE
            /\ searchInput' = <<>>
            /\ Refilter(endpoints, components, webhooks, <<>>)
            /\ cursor' = 0
            /\ scrollOffset' = 0
            /\ UNCHANGED <<showHelp, showCurl>>
       ELSE IF showCurl
       THEN /\ showCurl' = FALSE
            /\ UNCHANGED <<showHelp, searchMode, searchInput, filtered,
                           cursor, scrollOffset>>
       ELSE UNCHANGED <<showHelp, searchMode, searchInput, filtered, cursor,
                        scrollOffset, showCurl>>
    /\ UNCHANGED <<masters, mode, width, height, lastKey, curlCommand, quit,
                   panicked>>

(* generateCurl: the command names the method and the path (or the name of *)
(* a webhook) of the item it is generated for.                             *)
generateCurl(method, path) == <<"curl", method, path>>

KeyR ==
    /\ Browsing
    /\ lastMsg' = Msg("r")
    /\ IF ~showHelp /\ ~searchMode /\ mode \in {viewEndpoints, viewWebhooks}
          /\ cursor < Len(ActiveItems)
       THEN IF cursor < 0
            THEN panicked' = TRUE /\ UNCHANGED <<curlCommand, showCurl>>
            ELSE /\ curlCommand' =
                      IF mode = viewEndpoints
                      THEN generateCurl(getActiveEndpoints[cursor + 1].method,
                                        getActiveEndpoints[cursor + 1].path)
                      ELSE generateCurl(getActiveWebhooks[cursor + 1].method,
                                        getActiveWebhooks[cursor + 1].name)
                 /\ showCurl' = TRUE
                 /\ panicked' = panicked
       ELSE UNCHANGED <<curlCommand, showCurl, panicked>>
    /\ UNCHANGED <<masters, filtered, cursor, mode, width, height, showHelp,
                   lastKey, scrollOffset, searchMode, searchInput, quit>>

(* Mutant of KeyTab: the cursor and the scroll offset are not reset.       *)
KeyTabKeepsCursor(key) ==
    /\ Browsing
    /\ lastMsg' = Msg(key)
    /\ IF ~showHelp
       THEN /\ mode' = CASE mode = viewEndpoints ->
                              IF hasWebhooks THEN viewWebhooks ELSE viewComponents
                         [] mode = viewWebhooks -> viewComponents
                         [] mode = viewComponents -> viewEndpoints
                         [] OTHER -> mode
            /\ UNCHANGED <<cursor, scrollOffset>>
       ELSE UNCHANGED <<mode, cursor, scrollOffset>>
    /\ UNCHANGED <<masters, filtered, width, height, showHelp, lastKey,
                   searchMode, searchInput, showCurl, curlCommand, quit,
                   panicked>>

KeyTab(key) ==
    /\ Browsing
    /\ lastMsg' = Msg(key)
    /\ IF ~showHelp
       THEN /\ mode' = CASE mode = viewEndpoints ->
                              IF hasWebhooks THEN viewWebhooks ELSE viewComponents
                         [] mode = viewWebhooks -> viewComponents
                         [] mode = viewComponents -> viewEndpoints
                         [] OTHER -> mode
            /\ cursor' = 0
            /\ scrollOffset' = 0
       ELSE UNCHANGED <<mode, cursor, scrollOffset>>
    /\ UNCHANGED <<masters, filtered, width, height, showHelp, lastKey,
                   searchMode, searchInput, showCurl, curlCommand, quit,
                   panicked>>

(* Mutant of KeyShiftTab: the webhooks view is not skipped when there are  *)
(* no webhooks.                                                            *)
KeyShiftTabNoSkip(key) ==
    /\ Browsing
    /\ lastMsg' = Msg(key)
    /\ IF ~showHelp
       THEN /\ mode' = CASE mode = viewEndpoints -> viewComponents
                         [] mode = viewWebhooks -> viewEndpoints
                         [] mode = viewComponents -> viewWebhooks
                         [] OTHER -> mode
            /\ cursor' = 0
            /\ scrollOffset' = 0
       ELSE UNCHANGED <<mode, cursor, scrollOffset>>
    /\ UNCHANGED <<masters, filtered, width, height, showHelp, lastKey,
                   searchMode, searchInput, showCurl, curlCommand, quit,
                   panicked>>

KeyShiftTab(key) ==
    /\ Browsing
    /\ lastMsg' = Msg(key)
    /\ IF ~showHelp
       THEN /\ mode' = CASE mode = viewEndpoints -> viewComponents
                         [] mode = viewWebhooks -> viewEndpoints
                         [] mode = viewComponents ->
                              IF hasWebhooks THEN viewWebhooks ELSE viewEndpoints
                         [] OTHER -> mode
            /\ cursor' = 0
            /\ scrollOffset' = 0
       ELSE UNCHANGED <<mode, cursor, scrollOffset>>
    /\ UNCHANGED <<masters, filtered, width, height, showHelp, lastKey,
                   searchMode, searchInput, showCurl, curlCommand, quit,
                   panicked>>

KeyUp(key) ==
    /\ Browsing
    /\ lastMsg' = Msg(key)
    /\ IF ~showHelp /\ cursor > 0
       THEN MoveCursor(cursor - 1)
       ELSE UNCHANGED <<cursor, scrollOffset, panicked>>
    /\ UNCHANGED <<masters, filtered, mode, width, height, showHelp, lastKey,
                   searchMode, searchInput, showCurl, curlCommand, quit>>

KeyDown(key) ==
    /\ Browsing
    /\ lastMsg' = Msg(key)
    /\ IF ~showHelp /\ cursor < getMaxItems
       THEN MoveCursor(cursor + 1)
       ELSE UNCHANGED <<cursor, scrollOffset, panicked>>
    /\ UNCHANGED <<masters, filtered, mode, width, height, showHelp, lastKey,
                   searchMode, searchInput, showCurl, curlCommand, quit>>

(* The cursor "ctrl+d" moves to.                                           *)
HalfPageDown(c, maxItems) ==
    IF c + scrollHalfScreenLines > maxItems THEN maxItems
    ELSE c + scrollHalfScreenLines

KeyCtrlD ==
    /\ Browsing
    /\ lastMsg' = Msg("ctrl+d")
    /\ IF ~showHelp
       THEN MoveCursor(HalfPageDown(cursor, getMaxItems))
       ELSE UNCHANGED <<cursor, scrollOffset, panicked>>
    /\ UNCHANGED <<masters, filtered, mode, width, height, showHelp, lastKey,
                   searchMode, searchInput, showCurl, curlCommand, quit>>

(* The cursor "ctrl+u" moves to.                                           *)
HalfPageUp(c, totalHeight) ==
    LET halfLines == Max(1, calculateContentHeight(totalHeight) \div 2)
    IN  IF c < halfLines THEN 0 ELSE c - halfLines

KeyCtrlU ==
    /\ Browsing
    /\ lastMsg' = Msg("ctrl+u")
    /\ IF ~showHelp
       THEN MoveCursor(HalfPageUp(cursor, height))
       ELSE UNCHANGED <<cursor, scrollOffset, panicked>>
    /\ UNCHANGED <<masters, filtered, mode, width, height, showHelp, lastKey,
                   searchMode, searchInput, showCurl, curlCommand, quit>>

(* Mutant of KeyG: the help overlay does not stop the jump.                *)
KeyGIgnoresHelp ==
    /\ Browsing
    /\ lastMsg' = Msg("G")
    /\ IF getMaxItems >= 0
       THEN MoveCursor(getMaxItems)
       ELSE UNCHANGED <<cursor, scrollOffset, panicked>>
    /\ UNCHANGED <<masters, filtered, mode, width, height, showHelp, lastKey,
                   searchMode, searchInput, showCurl, curlCommand, quit>>

KeyG ==
    /\ Browsing
    /\ lastMsg' = Msg("G")
    /\ IF ~showHelp /\ getMaxItems >= 0
       THEN MoveCursor(getMaxItems)
       ELSE UNCHANGED <<cursor, scrollOffset, panicked>>
    /\ UNCHANGED <<masters, filtered, mode, width, height, showHelp, lastKey,
                   searchMode, searchInput, showCurl, curlCommand, quit>>

(* Time since the previous press of g that this case handled, in           *)
(* milliseconds.  When m.lastKey is "g", m.lastKeyAt is the time of that   *)
(* press (no other case writes either field), so now.Sub(m.lastKeyAt) is   *)
(* elapsed; when m.lastKey is "" the && does not read it.                  *)
Elapsed == {0, 499, 500, 501}

(* The run of presses of g that a press, elapsed after the previous one,   *)
(* continues or starts.                                                    *)
RunOfg(elapsed) ==
    IF lastMsg.key = "g" /\ ~lastMsg.search /\ elapsed < keySequenceThreshold
    THEN IF lastMsg.run < MaxRun THEN lastMsg.run + 1 ELSE MaxRun
    ELSE 1

(* Mutant of Keyg: the time between the presses is not compared.           *)
KeygNoThreshold(elapsed) ==
    /\ Browsing
    /\ lastMsg' = [Msg("g") EXCEPT !.gap = elapsed, !.run = RunOfg(elapsed)]
    /\ IF lastKey = "g"
       THEN /\ IF ~showHelp
               THEN MoveCursor(0)
               ELSE UNCHANGED <<cursor, scrollOffset, panicked>>
            /\ lastKey' = ""
       ELSE /\ lastKey' = "g"
            /\ UNCHANGED <<cursor, scrollOffset, panicked>>
    /\ UNCHANGED <<masters, filtered, mode, width, height, showHelp,
                   searchMode, searchInput, showCurl, curlCommand, quit>>

(* Mutant of Keyg: the gesture memory is kept after a recognized double    *)
(* press.                                                                  *)
KeygNoReset(elapsed) ==
    /\ Browsing
    /\ lastMsg' = [Msg("g") EXCEPT !.gap = elapsed, !.run = RunOfg(elapsed)]
    /\ IF lastKey = "g" /\ elapsed < keySequenceThreshold
       THEN /\ IF ~showHelp
               THEN MoveCursor(0)
               ELSE UNCHANGED <<cursor, scrollOffset, panicked>>
            /\ lastKey' = "g"
       ELSE /\ lastKey' = "g"
            /\ UNCHANGED <<cursor, scrollOffset, panicked>>
    /\ UNCHANGED <<masters, filtered, mode, width, height, showHelp,
                   searchMode, searchInput, showCurl, curlCommand, quit>>

(* "g" pressed when now.Sub(m.lastKeyAt) is elapsed.                       *)
Keyg(elapsed) ==
    /\ Browsing
    /\ lastMsg' = [Msg("g") EXCEPT !.gap = elapsed, !.run = RunOfg(elapsed)]
    /\ IF lastKey = "g" /\ elapsed < keySequenceThreshold
       THEN /\ IF ~showHelp
               THEN MoveCursor(0)
               ELSE UNCHANGED <<cursor, scrollOffset, panicked>>
            /\ lastKey' = ""
       ELSE /\ lastKey' = "g"
            /\ UNCHANGED <<cursor, scrollOffset, panicked>>
    /\ UNCHANGED <<masters, filtered, mode, width, height, showHelp,
                   searchMode, searchInput, showCurl, curlCommand, quit>>

(* A key no case of the switch names.                                      *)
KeyOther(key) ==
    /\ Browsing
    /\ lastMsg' = Msg(key)
    /\ UNCHANGED <<masters, filtered, cursor, mode, width, height, showHelp,
                   lastKey, scrollOffset, searchMode, searchInput, showCurl,
                   curlCommand, quit, panicked>>

----------------------------------------------------------------------------
(* Update: "enter", " " (toggle fold)                                      *)

(* Mutant of SameEndpoint: the method is not compared.                     *)
SameEndpointByPath(a, b) == a.path = b.path

SameEndpoint(a, b) == a.path = b.path /\ a.method = b.method
SameComponent(a, b) == a.name = b.name
SameWebhook(a, b) == a.name = b.name /\ a.method = b.method

(* The first of the indexes (from 1) of the matching master items, or 0:   *)
(* the loop "for i := range m.endpoints { if ... { ...; break } }".        *)
FirstMatch(hits) ==
    IF hits = {} THEN 0
    ELSE CHOOSE i \in hits : \A j \in hits : i <= j

Flip(seq, i) == IF i = 0 THEN seq ELSE [seq EXCEPT ![i].folded = ~@]

(* Mutant of KeyToggle: the filtered slices are not rebuilt after the      *)
(* flip.                                                                   *)
KeyToggleNoRefresh(key) ==
    /\ Browsing
    /\ lastMsg' = Msg(key)
    /\ IF ~showHelp /\ ~searchMode /\ cursor < Len(ActiveItems)
       THEN IF cursor < 0
            THEN panicked' = TRUE /\ UNCHANGED <<masters, filtered>>
            ELSE LET item == ActiveItems[cursor + 1]
                     i == CASE mode = viewEndpoints ->
                                   FirstMatch({n \in 1..Len(endpoints) :
                                       SameEndpoint(endpoints[n], item)})
                            [] mode = viewComponents ->
                                   FirstMatch({n \in 1..Len(components) :
                                       SameComponent(components[n], item)})
                            [] mode = viewWebhooks ->
                                   FirstMatch({n \in 1..Len(webhooks) :
                                       SameWebhook(webhooks[n], item)})
                 IN  /\ panicked' = panicked
                     /\ endpoints' = IF mode = viewEndpoints
                                     THEN Flip(endpoints, i) ELSE endpoints
                     /\ components' = IF mode = viewComponents
                                      THEN Flip(components, i) ELSE components
                     /\ webhooks' = IF mode = viewWebhooks
                                    THEN Flip(webhooks, i) ELSE webhooks
                     /\ UNCHANGED filtered
       ELSE UNCHANGED <<masters, filtered, panicked>>
    /\ UNCHANGED <<cursor, mode, width, height, showHelp, lastKey,
                   scrollOffset, searchMode, searchInput, showCurl,
                   curlCommand, quit>>

KeyToggle(key) ==
    /\ Browsing
    /\ lastMsg' = Msg(key)
    /\ IF ~showHelp /\ ~searchMode /\ cursor < Len(ActiveItems)
       THEN IF cursor < 0
            THEN panicked' = TRUE /\ UNCHANGED <<masters, filtered>>
            ELSE LET item == ActiveItems[cursor + 1]
                     i == CASE mode = viewEndpoints ->
                                   FirstMatch({n \in 1..Len(endpoints) :
                                       SameEndpoint(endpoints[n], item)})
                            [] mode = viewComponents ->
                                   FirstMatch({n \in 1..Len(components) :
                                       SameComponent(components[n], item)})
                            [] mode = viewWebhooks ->
                                   FirstMatch({n \in 1..Len(webhooks) :
                                       SameWebhook(webhooks[n], item)})
                 IN  /\ panicked' = panicked
                     /\ endpoints' = IF mode = viewEndpoints
                                     THEN Flip(endpoints, i) ELSE endpoints
                     /\ components' = IF mode = viewComponents
                                      THEN Flip(components, i) ELSE components
                     /\ webhooks' = IF mode = viewWebhooks
                                    THEN Flip(webhooks, i) ELSE webhooks
                     /\ IF i # 0
                        THEN Refilter(endpoints', components', webhooks', searchInput)
                        ELSE UNCHANGED filtered
       ELSE UNCHANGED <<masters, filtered, panicked>>
    /\ UNCHANGED <<cursor, mode, width, height, showHelp, lastKey,
                   scrollOffset, searchMode, searchInput, showCurl,
                   curlCommand, quit>>

----------------------------------------------------------------------------
(* Documents: what extractEndpoints, extractComponents and extractWebhooks *)
(* hand to NewModel.  Identity keys (method+path, name, name+method) are   *)
(* unique within a collection; every item starts folded.                   *)

Endpoint(path, method, summary, n) ==
    [path |-> path, method |-> method, summary |-> summary,
     description |-> <<>>, detailNewlines |-> n, folded |-> TRUE]

Component(name, compType, n) ==
    [name |-> name, compType |-> compType, description |-> <<>>,
     detailNewlines |-> n, folded |-> TRUE]

Webhook(name, method, n) ==
    [name |-> name, method |-> method, summary |-> <<>>,
     description |-> <<>>, detailNewlines |-> n, folded |-> TRUE]

DocWithWebhooks ==
    [endpoints |-> <<Endpoint(<<"/", "r">>, <<"P">>, <<"s", " ">>, 0),
                     Endpoint(<<"/", "r">>, <<"Q">>, <<"G", " ">>, 1)>>,
     components |-> <<>>,
     webhooks |-> <<Webhook(<<"g">>, <<"P">>, 0)>>]

DocWithComponents ==
    [endpoints |-> <<Endpoint(<<"/", "g">>, <<"P">>, <<>>, 0)>>,
     components |-> <<Component(<<"G">>, <<"s">>, 1)>>,
     webhooks |-> <<>>]

Docs == {DocWithWebhooks, DocWithComponents}

(* NewModel(doc)                                                           *)
NewModel(doc) ==
    /\ endpoints = doc.endpoints
    /\ components = doc.components
    /\ webhooks = doc.webhooks
    /\ cursor = 0
    /\ mode = viewEndpoints
    /\ width = 80
    /\ height = 24
    /\ showHelp = FALSE
    /\ lastKey = ""
    /\ scrollOffset = 0
    /\ searchMode = FALSE
    /\ searchInput = <<>>
    /\ filteredEndpoints = <<>>
    /\ filteredComponents = <<>>
    /\ filteredWebhooks = <<>>
    /\ showCurl = FALSE
    /\ curlCommand = <<>>
    /\ quit = FALSE
    /\ panicked = FALSE
    /\ lastMsg = NoMsg("none")

Init == \E doc \in Docs : NewModel(doc)

Next ==
    \/ SearchEsc
    \/ SearchCtrlC
    \/ SearchEnter
    \/ \E key \in SearchKeys : SearchInput(key)
    \/ \E w \in WindowWidths, h \in WindowHeights : Resize(w, h)
    \/ \E key \in {"q", "ctrl+c"} : KeyQuit(key)
    \/ KeyHelp
    \/ KeySlash
    \/ KeyEsc
    \/ KeyR
    \/ KeyTab("tab")
    \/ KeyShiftTab("shift+tab")
    \/ KeyUp("up")
    \/ KeyDown("down")
    \/ KeyCtrlD
    \/ KeyCtrlU
    \/ KeyG
    \/ \E elapsed \in Elapsed : Keyg(elapsed)
    \/ \E key \in {"enter", " "} : KeyToggle(key)
    \/ KeyOther("backspace")

Spec == Init /\ [][Next]_vars

----------------------------------------------------------------------------
(* ensureCursorVisible as a function of its inputs: every list of          *)
(* ScrollItems endpoints, folded or unfolded with up to two detail         *)
(* newlines, every cursor and scroll offset inside the list, and terminal  *)
(* heights that give content heights 1, 3 and 5.                           *)

ScrollItems == 4

DigitChars == <<"0", "1", "2", "3", "4", "5", "6", "7", "8", "9">>

(* The path of the i-th generated endpoint.                                *)
ItemPath(i) == <<"/", DigitChars[(i \div 10) + 1], DigitChars[(i % 10) + 1]>>

(* Rendered heights 1 (folded), 2, 3 and 4.                                *)
ItemShapes == {[folded |-> TRUE, detailNewlines |-> 0]} \cup
              {[folded |-> FALSE, detailNewlines |-> n] : n \in 0..2}

ShapedEndpoints(shapes) ==
    [i \in 1..Len(shapes) |->
        [Endpoint(ItemPath(i), <<"G">>, <<>>, shapes[i].detailNewlines)
            EXCEPT !.folded = shapes[i].folded]]

ScrollHeights == {9, 11, 13}

InitScroll ==
    \E shapes \in [1..ScrollItems -> ItemShapes] :
    \E c \in 0..(ScrollItems - 1), so \in 0..(ScrollItems - 1), h \in ScrollHeights :
        /\ endpoints = ShapedEndpoints(shapes)
        /\ components = <<>>
        /\ webhooks = <<>>
        /\ cursor = c
        /\ mode = viewEndpoints
        /\ width = 80
        /\ height = h
        /\ showHelp = FALSE
        /\ lastKey = ""
        /\ scrollOffset = so
        /\ searchMode = FALSE
        /\ searchInput = <<>>
        /\ filteredEndpoints = <<>>
        /\ filteredComponents = <<>>
        /\ filteredWebhooks = <<>>
        /\ showCurl = FALSE
        /\ curlCommand = <<>>
        /\ quit = FALSE
        /\ panicked = FALSE
        /\ lastMsg = NoMsg("none")

(* One call of m.ensureCursorVisible().                                    *)
CallEnsureCursorVisible ==
    /\ Running
    /\ lastMsg' = Msg("ensureCursorVisible")
    /\ IF ensureCursorVisiblePanics(cursor, scrollOffset)
       THEN panicked' = TRUE /\ scrollOffset' = scrollOffset
       ELSE panicked' = panicked
            /\ scrollOffset' = ensureCursorVisible(cursor, scrollOffset)
    /\ UNCHANGED <<masters, filtered, cursor, mode, width, height, showHelp,
                   lastKey, searchMode, searchInput, showCurl, curlCommand,
                   quit>>

NextScroll == CallEnsureCursorVisible

SpecScroll == InitScroll /\ [][NextScroll]_vars

(* Items offset..cursor, with the more-above line, fit the content height. *)
Fits(offset) ==
    LinesUsed(offset, cursor) + MoreAbove(offset) <= calculateContentHeight(height)

(* C4 as stated: after ensureCursorVisible the heights of items            *)
(* scrollOffset..cursor, plus 1 if scrollOffset > 0, are <= contentHeight, *)
(* for every cursor, heights and content height.                           *)
ScrolledAlwaysFits == lastMsg.key = "ensureCursorVisible" => Fits(scrollOffset)

(* C4 amended: the bound holds after ensureCursorVisible whenever the      *)
(* cursor item can fit at all, that is its own height, plus the more-above *)
(* line when the cursor is not at 0, is <= contentHeight.                  *)
ScrolledFitsWhenCursorItemFits ==
    (lastMsg.key = "ensureCursorVisible" /\ Fits(cursor)) => Fits(scrollOffset)

(* C4 witness: a call scrolled down to the first offset that fits.         *)
ScrolledDownToFit ==
    /\ lastMsg.key = "ensureCursorVisible"
    /\ 1 < scrollOffset /\ scrollOffset < cursor
    /\ Fits(scrollOffset)
    /\ ~Fits(scrollOffset - 1)

(* C5 as stated: after ensureCursorVisible with cursor > 0 no offset       *)
(* smaller than the resulting one satisfies the bound, whatever the offset *)
(* was before; with cursor = 0 the offset is 0.  (That the resulting       *)
(* offset itself satisfies the bound is C4.)                               *)
ScrolledToSmallestOffset ==
    lastMsg.key = "ensureCursorVisible" =>
        IF cursor = 0 THEN scrollOffset = 0
        ELSE /\ scrollOffset <= cursor
             /\ \A s \in 0..(scrollOffset - 1) : ~Fits(s)

(* C5 amended: with cursor c > 0, ensureCursorVisible sets the offset to c *)
(* when c is below the previous offset; otherwise to the smallest offset   *)
(* between the previous offset and c that fits, and leaves it unchanged    *)
(* when none of them fits: it never lowers the offset to an offset below   *)
(* the previous one that would fit.  With c = 0 the offset becomes 0.      *)
ScrolledToSmallestOffsetFromPrevious ==
    [][CallEnsureCursorVisible =>
        IF cursor = 0 THEN scrollOffset' = 0
        ELSE IF cursor < scrollOffset THEN scrollOffset' = cursor
        ELSE LET fitting == {s \in scrollOffset..cursor : Fits(s)}
             IN  IF fitting = {} THEN scrollOffset' = scrollOffset
                 ELSE /\ scrollOffset' \in fitting
                      /\ \A s \in fitting : scrollOffset' <= s]_vars

(* C5 witness: after a call the offset fits although a smaller one fits    *)
(* too (the previous offset was kept).                                     *)
KeptOffsetAboveSmallest ==
    /\ lastMsg.key = "ensureCursorVisible"
    /\ 0 < scrollOffset /\ scrollOffset < cursor
    /\ Fits(scrollOffset)
    /\ Fits(scrollOffset - 1)

----------------------------------------------------------------------------
(* The two scrolling scenarios: the cursor walks down a list one item at a *)
(* time from the top.                                                      *)

(* n endpoints, folded except those at the (0-based) indexes in tall,      *)
(* which are unfolded with 8 detail newlines (rendered height 10).         *)
ScenarioEndpoints(n, tall) ==
    [i \in 1..n |->
        [Endpoint(ItemPath(i), <<"G">>, <<>>, IF (i - 1) \in tall THEN 8 ELSE 0)
            EXCEPT !.folded = ((i - 1) \notin tall)]]

(* The state after NewModel and a resize to height h.                      *)
ScenarioStart(eps, h) ==
    /\ endpoints = eps
    /\ components = <<>>
    /\ webhooks = <<>>
    /\ cursor = 0
    /\ mode = viewEndpoints
    /\ width = 80
    /\ height = h
    /\ showHelp = FALSE
    /\ lastKey = ""
    /\ scrollOffset = 0
    /\ searchMode = FALSE
    /\ searchInput = <<>>
    /\ filteredEndpoints = <<>>
    /\ filteredComponents = <<>>
    /\ filteredWebhooks = <<>>
    /\ showCurl = FALSE
    /\ curlCommand = <<>>
    /\ quit = FALSE
    /\ panicked = FALSE
    /\ lastMsg = NoMsg("resize")

(* 30 folded items under content heights 8..12 (10 is the scenario's), and *)
(* 8 items of which the one at index 5 is tall, under content height 10.   *)
InitScenario ==
    \/ \E h \in 16..20 : ScenarioStart(ScenarioEndpoints(30, {}), h)
    \/ ScenarioStart(ScenarioEndpoints(8, {5}), 18)

NextScenario == \E key \in {"down", "j"} : KeyDown(key)

SpecScenario == InitScenario /\ [][NextScenario]_vars

InFoldedListScenario == Len(endpoints) = 30
InTallItemScenario == Len(endpoints) = 8

(* C6 as stated: with 30 folded items and content height 10, walking down  *)
(* from 0 gives scrollOffset = cursor - contentHeight + 1 at every step    *)
(* with cursor >= contentHeight, and 0 before.                             *)
ScrollTracksCursorExactly ==
    (InFoldedListScenario /\ calculateContentHeight(height) = 10) =>
        scrollOffset = IF cursor >= 10 THEN cursor - 10 + 1 ELSE 0

(* C6 amended: with 30 folded items and content height 10 (and likewise    *)
(* 8..12), walking down from 0 gives scrollOffset = cursor - contentHeight *)
(* + 2 at every step with cursor >= contentHeight (one content line goes   *)
(* to the more-above indicator), and 0 before.                             *)
ScrollTracksCursorBelowIndicator ==
    InFoldedListScenario =>
        scrollOffset = IF cursor >= calculateContentHeight(height)
                       THEN cursor - calculateContentHeight(height) + 2
                       ELSE 0

(* C6 witness: the walk reached the last item of the list under content    *)
(* height 10, the viewport having scrolled.                                *)
WalkedDownToLastItem ==
    /\ InFoldedListScenario
    /\ calculateContentHeight(height) = 10
    /\ lastMsg.key = "down"
    /\ cursor = 29
    /\ scrollOffset = 21

(* C7: with content height 10 and an unfolded item of rendered height 10   *)
(* at index 5 among items of height 1, after the cursor moves from 4 onto  *)
(* 5 the lines of items scrollOffset..5, plus the more-above line when     *)
(* scrollOffset > 0, total at most 10.                                     *)
TallCursorItemFullyVisible ==
    (InTallItemScenario /\ cursor = 5) => Fits(scrollOffset)

----------------------------------------------------------------------------
(* Claims about the navigation state machine                               *)

(* C1: whenever the active collection of the current view mode is          *)
(* non-empty, 0 <= cursor <= len(active collection) - 1.                   *)
CursorWithinActive ==
    Len(ActiveItems) > 0 => (0 <= cursor /\ cursor <= Len(ActiveItems) - 1)

(* C2: in every reachable state 0 <= scrollOffset <= cursor.               *)
ScrollOffsetWithinCursor == 0 <= scrollOffset /\ scrollOffset <= cursor

IsItem(a, b) == [a EXCEPT !.folded = TRUE] = [b EXCEPT !.folded = TRUE]

FlipItem(seq, item) ==
    [i \in 1..Len(seq) |->
        IF IsItem(seq[i], item) THEN [seq[i] EXCEPT !.folded = ~@] ELSE seq[i]]

Changed(old, new) == {i \in 1..Len(old) : old[i] # new[i]}

(* The step processes one of keys, in search mode or not: every action     *)
(* records the message it processes in lastMsg.                            *)
Handles(keys, inSearch) == lastMsg'.key \in keys /\ lastMsg'.search = inSearch

(* C8: a toggle-fold event (enter or space while browsing, no help         *)
(* overlay) with an item under the cursor flips the fold flag of exactly   *)
(* the master item that is under the cursor in the active (possibly        *)
(* filtered) collection, and leaves the cursor, the view mode, the query   *)
(* and every other fold flag of the three master collections unchanged.    *)
ToggleFlipsOnlyItemUnderCursor ==
    [][(Handles({"enter", " "}, FALSE) /\ ~showHelp
            /\ 0 <= cursor /\ cursor < Len(ActiveItems)) =>
        LET item == ActiveItems[cursor + 1]
        IN  /\ cursor' = cursor /\ mode' = mode /\ searchInput' = searchInput
            /\ endpoints' = IF mode = viewEndpoints
                            THEN FlipItem(endpoints, item) ELSE endpoints
            /\ components' = IF mode = viewComponents
                             THEN FlipItem(components, item) ELSE components
            /\ webhooks' = IF mode = viewWebhooks
                           THEN FlipItem(webhooks, item) ELSE webhooks
            /\ Cardinality(Changed(endpoints, endpoints')
                           \cup Changed(components, components')
                           \cup Changed(webhooks, webhooks')) = 1
            /\ Len(endpoints') = Len(endpoints)
            /\ Len(components') = Len(components)
            /\ Len(webhooks') = Len(webhooks)]_vars

(* C8 witness: under the committed query "G", which shows only the second  *)
(* endpoint, a toggle unfolded the second master endpoint and no other.    *)
ToggledItemOfFilteredList ==
    /\ Handled(" ", FALSE)
    /\ searchInput = <<"G">>
    /\ mode = viewEndpoints
    /\ Len(endpoints) = 2
    /\ Len(filteredEndpoints) = 1
    /\ IsItem(filteredEndpoints[1], endpoints[2])
    /\ ~endpoints[2].folded
    /\ endpoints[1].folded

NavKeys == {"up", "down", "ctrl+d", "ctrl+u", "G", "g"}

(* C9: when the query typed in search mode matches no item of the current  *)
(* view, the active collection has length 0 and cursor = 0 and             *)
(* scrollOffset = 0; and every up, down, half-page jump, jump-to-last and  *)
(* jump-to-first command processed while the query matches nothing is      *)
(* processed without an out-of-range index access.                         *)
NoMatchIsHarmless ==
    [][/\ (Handles(SearchKeys, TRUE) /\ searchInput' # <<>>
            /\ Len(ActiveItems') = 0)
           => (cursor' = 0 /\ scrollOffset' = 0)
       /\ (Handles(NavKeys, FALSE) /\ searchInput # <<>>
            /\ Len(ActiveItems) = 0)
           => (~panicked' /\ Len(ActiveItems') = 0)]_vars

(* C9 witness: a half-page jump was processed under a committed query that *)
(* matches nothing, without a panic.                                       *)
JumpedUnderNoMatch ==
    /\ Handled("ctrl+d", FALSE)
    /\ searchInput = <<" ">>
    /\ Len(ActiveItems) = 0
    /\ Len(endpoints) > 0
    /\ ~showHelp
    /\ ~panicked

(* C10: clearing the query (escape in search mode, or the query becoming   *)
(* empty) makes the active collection of every view identical to the       *)
(* master collection in length, order and content, and leaves every fold   *)
(* flag of the master collections as it was toggled.                       *)
ClearingQueryRestoresMasters ==
    [][(searchInput # <<>> /\ searchInput' = <<>>) =>
        /\ endpoints' = endpoints
        /\ components' = components
        /\ webhooks' = webhooks
        /\ getActiveEndpoints' = endpoints
        /\ getActiveComponents' = components
        /\ getActiveWebhooks' = webhooks]_vars

(* C10 witness: escape in search mode has cleared the query and the active *)
(* endpoints are the masters, the second of which a toggle made under the  *)
(* query had unfolded.                                                     *)
ClearedQueryKeepsToggledFold ==
    /\ Handled("esc", TRUE)
    /\ searchInput = <<>>
    /\ mode = viewEndpoints
    /\ Len(endpoints) = 2
    /\ ActiveItems = endpoints
    /\ endpoints[1].folded
    /\ ~endpoints[2].folded

----------------------------------------------------------------------------
(* Claims about the double press of g                                      *)

(* The message processed last was a press of g handled while browsing.     *)
LastWasg == Handled("g", FALSE)

(* C11: while browsing with no help overlay, a press of g that follows a   *)
(* first press of g (one the gesture memory holds) by less than the 500 ms *)
(* threshold sets cursor = 0 and scrollOffset = 0; one that follows it by  *)
(* more than the threshold leaves cursor and scrollOffset unchanged and    *)
(* becomes the new first press.                                            *)
DoublePressJumpsWithinThreshold ==
    [][(Handles({"g"}, FALSE) /\ ~showHelp /\ LastWasg /\ lastKey = "g") =>
        /\ lastMsg'.gap < keySequenceThreshold =>
              (cursor' = 0 /\ scrollOffset' = 0)
        /\ lastMsg'.gap > keySequenceThreshold =>
              (cursor' = cursor /\ scrollOffset' = scrollOffset
               /\ lastKey' = "g")]_vars

(* C11 witness: the second of two presses of g, 499 ms after the first,    *)
(* has been recognized (the gesture memory is empty again) with no help    *)
(* overlay, in a list of two items, and the cursor is at the top.          *)
JumpedOnSecondPress ==
    /\ LastWasg
    /\ lastMsg.gap = 499
    /\ lastMsg.run = 2
    /\ lastKey = ""
    /\ ~showHelp
    /\ Len(ActiveItems) = 2
    /\ cursor = 0
    /\ scrollOffset = 0

(* C12: when another key event was processed between two presses of g, the *)
(* second press does not jump to the top (cursor and scrollOffset stay as  *)
(* they are), even inside the threshold.                                   *)
InterveningKeySupersedesGesture ==
    [][(Handles({"g"}, FALSE) /\ lastMsg.key \notin {"g", "none", "resize"}) =>
        (cursor' = cursor /\ scrollOffset' = scrollOffset)]_vars

(* C13: a recognized double press (a press of g less than the threshold    *)
(* after the first press that the gesture memory holds) leaves the gesture *)
(* memory empty; the press of g right after it changes neither cursor nor  *)
(* scrollOffset and becomes a first press; so of two presses of g that     *)
(* follow one another inside the threshold exactly one is recognized.      *)
TriplePressDoesNotRetrigger ==
    [][Handles({"g"}, FALSE) =>
        /\ (lastKey = "g" /\ lastMsg'.gap < keySequenceThreshold) =>
              lastKey' = ""
        /\ lastKey = "" =>
              (cursor' = cursor /\ scrollOffset' = scrollOffset
               /\ lastKey' = "g")
        /\ (LastWasg /\ lastMsg'.gap < keySequenceThreshold) =>
              ((lastKey' = "") <=> (lastKey = "g"))]_vars

(* C13 witness: the third (or a later) press of a run of presses of g,     *)
(* each inside the threshold of the one before, has been processed as a    *)
(* first press: the press before it was a recognized double press.         *)
ThirdPressIsFirstPress ==
    /\ LastWasg
    /\ lastMsg.run = 3
    /\ lastMsg.gap < keySequenceThreshold
    /\ lastKey = "g"
    /\ ~showHelp

----------------------------------------------------------------------------
(* Claims about view switches and the search                               *)

SwitchKeys == {"tab", "L", "shift+tab", "H"}

(* C14: a view-mode switch (tab/L or shift+tab/H while browsing, no help   *)
(* overlay) under a committed non-empty query changes the view mode, sets  *)
(* cursor = 0 and scrollOffset = 0, and leaves the query text, the         *)
(* filtered collections and the master collections with all their fold     *)
(* flags unchanged.                                                        *)
SwitchUnderQueryResetsCursorOnly ==
    [][(Handles(SwitchKeys, FALSE) /\ ~showHelp /\ searchInput # <<>>) =>
        /\ mode' # mode
        /\ cursor' = 0
        /\ scrollOffset' = 0
        /\ searchInput' = searchInput
        /\ filtered' = filtered
        /\ masters' = masters]_vars

(* C14 witness: tab has switched from the endpoints, of which the          *)
(* committed query " " shows two, the second one unfolded, to the          *)
(* webhooks.                                                               *)
SwitchedViewUnderQuery ==
    /\ Handled("tab", FALSE)
    /\ ~showHelp
    /\ searchInput = <<" ">>
    /\ mode = viewWebhooks
    /\ Len(filteredEndpoints) = 2
    /\ ~filteredEndpoints[2].folded
    /\ cursor = 0
    /\ scrollOffset = 0

(* C15 as stated: right after a view-mode switch, a search commit (enter   *)
(* in search mode) and a search clear (escape in search mode), cursor = 0  *)
(* and scrollOffset = 0.                                                   *)
CursorResetAfterSwitchCommitClear ==
    (\/ (lastMsg.key \in SwitchKeys /\ ~lastMsg.search /\ ~showHelp)
     \/ (lastMsg.key \in {"enter", "esc"} /\ lastMsg.search))
        => (cursor = 0 /\ scrollOffset = 0)

(* C15 amended: a view-mode switch and a search clear set cursor = 0 and   *)
(* scrollOffset = 0 whatever they were; a search commit leaves both as     *)
(* they are, which is 0 whenever the committed query is not empty (every   *)
(* key typed into the search had reset them).                              *)
SwitchAndClearResetCommitKeeps ==
    [][/\ (Handles(SwitchKeys, FALSE) /\ ~showHelp) =>
              (cursor' = 0 /\ scrollOffset' = 0)
       /\ Handles({"esc"}, TRUE) => (cursor' = 0 /\ scrollOffset' = 0)
       /\ Handles({"enter"}, TRUE) =>
              /\ cursor' = cursor
              /\ scrollOffset' = scrollOffset
              /\ searchInput # <<>> => (cursor' = 0 /\ scrollOffset' = 0)]_vars

(* C15 witness: a search opened with the cursor on the second item has     *)
(* been committed and the cursor is still there.                           *)
CommittedSearchKeptCursor ==
    /\ Handled("enter", TRUE)
    /\ ~searchMode
    /\ searchInput = <<>>
    /\ cursor = 1
    /\ Len(ActiveItems) = 2

----------------------------------------------------------------------------
(* Claims about the overlays and quitting                                  *)

HelpDismissKeys == {"?", "esc", "q", "ctrl+c"}

(* C16: while the help overlay is visible, every key other than ?, esc, q  *)
(* and ctrl+c leaves cursor, scrollOffset, view mode, search mode, query,  *)
(* command overlay flag and all fold flags unchanged (and the overlay      *)
(* open).                                                                  *)
HelpOverlayIsModal ==
    [][(showHelp /\ lastMsg'.key \notin HelpDismissKeys \cup {"resize"}) =>
        /\ UNCHANGED <<cursor, scrollOffset, mode, searchMode, searchInput,
                       showCurl, masters>>
        /\ showHelp'
        /\ ~panicked']_vars

(* C16 witness: G was pressed under the help overlay with the cursor on    *)
(* the first of two items, and the cursor is still there.                  *)
IgnoredJumpUnderHelp ==
    /\ Handled("G", FALSE)
    /\ showHelp
    /\ Len(ActiveItems) = 2
    /\ cursor = 0

OverlayIgnoredKeys ==
    {"up", "down", "ctrl+d", "ctrl+u", "G", "g", "/", "enter", " "}
        \cup SwitchKeys

(* C17: while the command (curl) overlay is visible, up/down, half-page    *)
(* jumps, G, gg, tab/shift+tab, / and enter/space leave cursor,            *)
(* scrollOffset, view mode, search mode, query and all fold flags          *)
(* unchanged.                                                              *)
CommandOverlayIsModal ==
    [][(showCurl /\ Handles(OverlayIgnoredKeys, FALSE)) =>
        UNCHANGED <<cursor, scrollOffset, mode, searchMode, searchInput,
                    masters>>]_vars

(* C18: q or ctrl+c outside search editing quits when no overlay is open;  *)
(* when the help overlay or the command overlay is open it closes an       *)
(* overlay and the program keeps running.                                  *)
QuitKeyClosesOverlayFirst ==
    [][Handles({"q", "ctrl+c"}, FALSE) =>
        IF showHelp \/ showCurl
        THEN ~quit' /\ (showHelp' # showHelp \/ showCurl' # showCurl)
        ELSE quit']_vars

----------------------------------------------------------------------------
(* Claims about the state after every event                                *)

(* C19: after every processed event (key, resize, fold toggle) that leaves *)
(* the cursor on an item, scrollOffset is the value ensureCursorVisible    *)
(* yields for the current cursor, item heights and terminal height:        *)
(* running it once more changes nothing, and the cursor item, when it can  *)
(* fit in the content area at all, fits.                                   *)
ScrollOffsetFollowsEveryEvent ==
    (Running /\ 0 <= cursor /\ cursor < Len(ActiveItems)) =>
        /\ ensureCursorVisible(cursor, scrollOffset) = scrollOffset
        /\ Fits(cursor) => Fits(scrollOffset)

(* The text s contains the text q, letter case ignored.                    *)
ContainsFold(s, q) ==
    \E i \in 0..(Len(s) - Len(q)) :
        \A j \in 1..Len(q) : LowerChar(s[i + j]) = LowerChar(q[j])

(* The indexes of the items of master of which one of the fields contains  *)
(* the query.                                                              *)
Matching(master, fields) ==
    {i \in 1..Len(master) :
        \E f \in fields : ContainsFold(master[i][f], searchInput)}

(* shown is the subsequence of master, in master order, of the items at    *)
(* the indexes in hits, each equal to its master item, fold flag included. *)
IsSubsequenceAt(shown, master, hits) ==
    LET at == hits
    IN  /\ Len(shown) = Cardinality(at)
        /\ \A k \in 1..Len(shown) :
              \E i \in at : /\ Cardinality({j \in at : j < i}) = k - 1
                            /\ shown[k] = master[i]

(* C20: in every state with a non-empty query, each filtered collection is *)
(* exactly the subsequence of its master collection, in master order, of   *)
(* the items with a queried field that contains the query                  *)
(* case-insensitively, and every filtered item has the fold flag of its    *)
(* master item.                                                            *)
FilteredIsCurrentSubsequence ==
    searchInput # <<>> =>
        /\ IsSubsequenceAt(filteredEndpoints, endpoints,
               Matching(endpoints, {"path", "method", "summary", "description"}))
        /\ IsSubsequenceAt(filteredComponents, components,
               Matching(components, {"name", "compType", "description"}))
        /\ IsSubsequenceAt(filteredWebhooks, webhooks,
               Matching(webhooks, {"name", "method", "summary", "description"}))

(* C20 witness: under the committed query " ", which shows both endpoints, *)
(* a toggle has unfolded the second one, and the filtered copy is unfolded *)
(* as its master is.                                                       *)
ToggledUnderQueryIsCurrent ==
    /\ Handled("enter", FALSE)
    /\ searchInput = <<" ">>
    /\ mode = viewEndpoints
    /\ cursor = 1
    /\ Len(filteredEndpoints) = 2
    /\ filteredEndpoints[1].folded
    /\ ~filteredEndpoints[2].folded
    /\ ~endpoints[2].folded

----------------------------------------------------------------------------
(* Claims about view cycling                                               *)

(* The views in forward order, the webhooks left out when there are none.  *)
Rotation ==
    IF Len(webhooks) > 0
    THEN <<viewEndpoints, viewWebhooks, viewComponents>>
    ELSE <<viewEndpoints, viewComponents>>

(* The place of view m in the rotation, or 0.                              *)
PlaceOf(m) ==
    IF \E n \in 1..Len(Rotation) : Rotation[n] = m
    THEN CHOOSE n \in 1..Len(Rotation) : Rotation[n] = m
    ELSE 0

(* C21: every forward cycle (tab/L, no help overlay) moves the mode one    *)
(* place on in Endpoints -> Webhooks -> Components -> Endpoints, every     *)
(* backward cycle (shift+tab/H) one place back, the webhooks being left    *)
(* out of the rotation when the master webhook collection is empty (so a   *)
(* backward cycle undoes a forward one); the mode is never Webhooks when   *)
(* there are no webhooks; every cycle sets cursor = 0 and scrollOffset =   *)
(* 0.                                                                      *)
ViewCyclingRotates ==
    [][/\ PlaceOf(mode') # 0
       /\ (Handles({"tab", "L"}, FALSE) /\ ~showHelp) =>
              /\ PlaceOf(mode') = (PlaceOf(mode) % Len(Rotation)) + 1
              /\ cursor' = 0 /\ scrollOffset' = 0
       /\ (Handles({"shift+tab", "H"}, FALSE) /\ ~showHelp) =>
              /\ PlaceOf(mode) = (PlaceOf(mode') % Len(Rotation)) + 1
              /\ cursor' = 0 /\ scrollOffset' = 0]_vars

(* C21 witness: without webhooks, a backward cycle from the components has *)
(* gone to the endpoints, not to the webhooks (the component had been      *)
(* unfolded meanwhile).                                                    *)
CycledBackPastWebhooks ==
    /\ Handled("shift+tab", FALSE)
    /\ ~showHelp
    /\ Len(webhooks) = 0
    /\ Len(components) = 1
    /\ ~components[1].folded
    /\ mode = viewEndpoints
    /\ cursor = 0
    /\ scrollOffset = 0

----------------------------------------------------------------------------
(* The search: every key the search may be sent, on the states that a few  *)
(* browsing keys prepare (cursor on the second item, an unfolded item, the *)
(* command overlay open, a first press of g in the gesture memory).        *)

NextSearch ==
    \/ KeySlash
    \/ SearchEsc
    \/ SearchCtrlC
    \/ SearchEnter
    \/ \E key \in SearchEditKeys : SearchInput(key)
    \/ KeyDown("j")
    \/ KeyToggle(" ")
    \/ KeyR
    \/ Keyg(499)

SpecSearch == Init /\ [][NextSearch]_vars

(* C22: a search commit (enter in search mode) leaves search mode and      *)
(* changes nothing else: the query, the filtered collections, the cursor,  *)
(* the scrollOffset, the view mode, the master collections with all fold   *)
(* flags and every other field are what they were before the key.          *)
CommitChangesOnlySearchMode ==
    [][Handles({"enter"}, TRUE) =>
        /\ searchMode /\ ~searchMode'
        /\ UNCHANGED <<searchInput, filtered, cursor, scrollOffset, mode,
                       masters, width, height, showHelp, lastKey, showCurl,
                       curlCommand, quit, panicked>>]_vars

(* C22 witness: the query "r", which shows both endpoints, has been        *)
(* committed over a list whose second endpoint is unfolded.                *)
CommittedQueryKept ==
    /\ Handled("enter", TRUE)
    /\ ~searchMode
    /\ searchInput = <<"r">>
    /\ Len(filteredEndpoints) = 2
    /\ ~filteredEndpoints[2].folded
    /\ mode = viewEndpoints

(* C23: in search mode every key except esc, enter and ctrl+c goes to the  *)
(* text input (a printable key appends its character) and is not           *)
(* navigation: view mode, master collections with all fold flags, help and *)
(* command overlay flags and gesture memory are unchanged, the program     *)
(* stays in search mode and does not quit; the filtered collections are    *)
(* those of the new query, and cursor = 0 and scrollOffset = 0.            *)
SearchKeysOnlyEditQuery ==
    [][Handles(SearchEditKeys, TRUE) =>
        /\ UNCHANGED <<mode, masters, showHelp, showCurl, curlCommand,
                       lastKey, width, height>>
        /\ searchMode' /\ ~quit' /\ ~panicked'
        /\ lastMsg'.key \in Printable =>
              searchInput' = Append(searchInput, lastMsg'.key)
        /\ FilteredIsCurrentSubsequence'
        /\ searchInput' = <<>> =>
              (filteredEndpoints' = <<>> /\ filteredComponents' = <<>>
               /\ filteredWebhooks' = <<>>)
        /\ cursor' = 0
        /\ scrollOffset' = 0]_vars

(* C23 witness: q was typed into a search opened under the command overlay *)
(* with a first press of g in the gesture memory; the program runs on, the *)
(* query is "q" and shows the one endpoint whose method contains it.       *)
TypedQuitKeyIntoSearch ==
    /\ Handled("q", TRUE)
    /\ searchMode
    /\ ~quit
    /\ searchInput = <<"q">>
    /\ showCurl
    /\ lastKey = "g"
    /\ Len(endpoints) = 2
    /\ ~endpoints[1].folded
    /\ Len(filteredEndpoints) = 1
    /\ filteredEndpoints[1].method = <<"Q">>

----------------------------------------------------------------------------
(* Claims about the command overlay, the half-page jumps and the states    *)

(* C24: r (while browsing) opens the command overlay and stores a command  *)
(* only when the view mode is Endpoints or Webhooks, the help overlay is   *)
(* not shown and the cursor indexes an item of the active collection; in   *)
(* every other case (Components, empty collection, cursor out of range,    *)
(* help overlay) it changes nothing at all.                                *)
GenerateCommandOnlyForItem ==
    [][Handles({"r"}, FALSE) =>
        IF /\ mode \in {viewEndpoints, viewWebhooks}
           /\ ~showHelp
           /\ 0 <= cursor /\ cursor < Len(ActiveItems)
        THEN /\ showCurl'
             /\ curlCommand' # <<>>
             /\ UNCHANGED <<cursor, scrollOffset, mode, searchMode,
                            searchInput, masters, filtered, showHelp,
                            panicked, quit>>
        ELSE UNCHANGED <<showCurl, curlCommand, cursor, scrollOffset, mode,
                         searchMode, searchInput, masters, filtered,
                         showHelp, lastKey, width, height, panicked,
                         quit>>]_vars

Min(a, b) == IF a < b THEN a ELSE b

(* C25: ctrl+d (no help overlay) sets cursor to min(cursor + 21,           *)
(* lastIndex), ctrl+u to max(cursor - max(1, contentHeight / 2), 0); after *)
(* either key 0 <= cursor <= lastIndex of the active collection, and       *)
(* scrollOffset is what ensureCursorVisible gives for the new cursor.      *)
HalfPageJumpsStayInList ==
    [][(Handles({"ctrl+d", "ctrl+u"}, FALSE) /\ ~showHelp) =>
        /\ cursor' =
              IF lastMsg'.key = "ctrl+d"
              THEN Min(cursor + 21, Len(ActiveItems) - 1)
              ELSE Max(cursor - Max(1, calculateContentHeight(height) \div 2), 0)
        /\ 0 <= cursor' /\ cursor' <= Len(ActiveItems) - 1
        /\ scrollOffset' = ensureCursorVisible(cursor', scrollOffset)]_vars

(* C26: in no reachable state are two of searchMode, showHelp and showCurl *)
(* true at the same time.                                                  *)
ExactlyOneInputState ==
    /\ ~(searchMode /\ showHelp)
    /\ ~(searchMode /\ showCurl)
    /\ ~(showHelp /\ showCurl)

(* The same items in the same order, fold flags apart.                     *)
SameItems(old, new) ==
    /\ Len(new) = Len(old)
    /\ \A i \in 1..Len(old) : IsItem(new[i], old[i])

(* C27: across every event the three master collections keep their        *)
(* length, order and items, and a master fold flag changes only in a       *)
(* toggle-fold event (enter or space while browsing).                      *)
MastersChangeOnlyByToggle ==
    [][/\ SameItems(endpoints, endpoints')
       /\ SameItems(components, components')
       /\ SameItems(webhooks, webhooks')
       /\ masters' # masters => Handles({"enter", " "}, FALSE)]_vars

(* C27 witness: since the first endpoint and the webhook were unfolded the *)
(* view has been switched, the terminal resized and a search opened and    *)
(* cleared, and both are still unfolded.                                   *)
FoldsSurvivedSearchAndSwitch ==
    /\ Handled("esc", TRUE)
    /\ searchInput = <<>>
    /\ mode = viewWebhooks
    /\ Len(webhooks) = 1
    /\ ~webhooks[1].folded
    /\ ~endpoints[1].folded
    /\ endpoints[2].folded
    /\ height = 10

----------------------------------------------------------------------------
(* Claims about ensureCursorVisible as an operation                        *)

(* C28: a call of ensureCursorVisible right after a call changes nothing   *)
(* (it is idempotent); a call changes no field but scrollOffset (cursor,   *)
(* mode, collections and fold flags stay); it lowers scrollOffset only     *)
(* when cursor = 0 or cursor < scrollOffset, and raises it only when items *)
(* scrollOffset..cursor, with the more-above line, do not fit in the       *)
(* content height.                                                         *)
EnsureCursorVisibleIdempotent ==
    [][lastMsg'.key = "ensureCursorVisible" =>
        /\ lastMsg.key = "ensureCursorVisible" => scrollOffset' = scrollOffset
        /\ UNCHANGED <<cursor, mode, masters, filtered, searchInput, height,
                       width, panicked>>
        /\ scrollOffset' < scrollOffset =>
              (cursor = 0 \/ cursor < scrollOffset)
        /\ scrollOffset' > scrollOffset =>
              (~Fits(scrollOffset) /\ scrollOffset' <= cursor)]_vars

(* C28 witness: a call has left the offset below a cursor item that is too *)
(* tall to fit with the more-above line: a second call finds the same.     *)
CalledWithNoFittingOffset ==
    /\ lastMsg.key = "ensureCursorVisible"
    /\ 0 < scrollOffset /\ scrollOffset < cursor
    /\ ~Fits(cursor)
    /\ ~Fits(scrollOffset)

====
